---------------------------- MODULE Spec2Model ----------------------------
(***************************************************************************)
(* Thread-continuity manager of the spreadsheet-triggered daily update     *)
(* mail scripts.  Two scripts share the persisted keys riseTrackerThreadId *)
(* and lastKnownRiseTrackerThreadId:                                       *)
(*   "v3"     src/gsheet-update-triggered-email.js (v3.0-PRODUCTION-FIXED) *)
(*   "legacy" src/setThreadIDManually.js                                   *)
(* A run of sendDailyUpdate is a sequence of calls to the spreadsheet      *)
(* provider, the property store and the mail provider.  Each call is one   *)
(* step of the model and each call may throw.                              *)
(***************************************************************************)
EXTENDS Naturals, Sequences, FiniteSets, TLC

\* Number of conversations the mail provider can create in one behaviour.
MaxThreads == 2

\* ------------------------------------------------------------------------
\* Values
\* ------------------------------------------------------------------------

\* JavaScript null: what getProperty returns for an absent key.
Null == "null"

\* CONFIG.recipientEmail
recipientEmail == "inyourface@googlegroups.com"

\* CONFIG.emailSubject
emailSubject == "5:00a rise tracking update"

\* The id pasted into setThreadIdManually.
ManualThreadId == "FMfcgzQcpKlPvJmlwZBmdSwkwSWczRJJ"

\* The account the script runs as: sender of every message the script sends.
ScriptUser == "script-user"

\* Ids of the conversations the provider hands out, in order of creation.
ProviderId(n) == "T" \o ToString(n)

ThreadIds == {ProviderId(n) : n \in 1..MaxThreads} \cup {ManualThreadId}

Versions == {"v3", "legacy"}

\* ------------------------------------------------------------------------
\* Raw message content, as a sequence of tokens.  A token is one literal
\* the regular expressions of replyToExistingThread look for, one
\* whitespace character, or one run of other characters.
\* ------------------------------------------------------------------------
MID == "Message-ID:"
REF == "References:"
SP  == " "
NL  == "\n"
LT  == "<"
GT  == ">"

\* \s of a JavaScript regular expression
IsSpace(t) == t \in {SP, NL}

Min(S) == CHOOSE x \in S : \A y \in S : x <= y
Max(S) == CHOOSE x \in S : \A y \in S : x >= y

\* A message as the provider holds it: its Message-ID (<<>> when the header
\* is absent), the lines of its References header (<<>> when absent; lines
\* after the first are folded continuation lines) and its body.
Message(mid, refs, body) == [messageId |-> mid, references |-> refs, body |-> body]

RECURSIVE FoldLines(_)
FoldLines(lines) ==
    IF lines = <<>> THEN <<>>
    ELSE <<SP>> \o Head(lines) \o <<NL>> \o FoldLines(Tail(lines))

\* GmailMessage.getRawContent(): the header lines, an empty line, the body.
getRawContent(msg) ==
    (IF msg.messageId = <<>> THEN <<>>
     ELSE <<MID, SP, LT>> \o msg.messageId \o <<GT, NL>>)
    \o (IF msg.references = <<>> THEN <<>>
        ELSE <<REF>> \o FoldLines(msg.references))
    \o <<NL>> \o msg.body

\* rawContent.match(/Message-ID:\s*<([^>]+)>/i): group 1 of the leftmost
\* match, <<>> when there is none (messageId = null).
MessageIdAt(raw, i) ==
    LET n  == Len(raw)
        js == {j \in (i+1)..n : ~IsSpace(raw[j])}
        j  == IF js = {} THEN 0 ELSE Min(js)
        ks == {k \in (j+1)..n : raw[k] = GT}
        k  == IF ks = {} THEN 0 ELSE Min(ks)
    IN  IF j # 0 /\ raw[j] = LT /\ k > j + 1 THEN SubSeq(raw, j + 1, k - 1)
        ELSE <<>>

ExtractMessageId(raw) ==
    LET hits == {i \in 1..Len(raw) : raw[i] = MID /\ MessageIdAt(raw, i) # <<>>}
    IN  IF hits = {} THEN <<>> ELSE MessageIdAt(raw, Min(hits))

\* rawContent.match(/References:\s*([^\r\n]+)/i) at the occurrence at i:
\* \s* is greedy and gives characters back until a character other than a
\* line break follows; group 1 runs to the end of that line.
ReferencesAt(raw, i) ==
    LET n  == Len(raw)
        ns == {j \in (i+1)..n : ~IsSpace(raw[j])}
        w  == IF ns = {} THEN n ELSE Min(ns) - 1
        ss == {s \in (i+1)..(w+1) : s <= n /\ raw[s] # NL}
        s  == IF ss = {} THEN 0 ELSE Max(ss)
        es == {e \in s..n : raw[e] = NL}
        e  == IF es = {} THEN n ELSE Min(es) - 1
    IN  IF s = 0 THEN [matched |-> FALSE, group |-> <<>>]
        ELSE [matched |-> TRUE, group |-> SubSeq(raw, s, e)]

MatchReferences(raw) ==
    LET hits == {i \in 1..Len(raw) : raw[i] = REF /\ ReferencesAt(raw, i).matched}
    IN  IF hits = {} THEN [matched |-> FALSE, group |-> <<>>]
        ELSE ReferencesAt(raw, Min(hits))

\* String.prototype.trim
RECURSIVE TrimLeft(_)
TrimLeft(s) == IF s # <<>> /\ IsSpace(Head(s)) THEN TrimLeft(Tail(s)) ELSE s

RECURSIVE TrimRight(_)
TrimRight(s) ==
    IF s # <<>> /\ IsSpace(s[Len(s)]) THEN TrimRight(SubSeq(s, 1, Len(s) - 1)) ELSE s

Trim(s) == TrimRight(TrimLeft(s))

Bracket(messageId) == <<LT>> \o messageId \o <<GT>>

\* The References header replyToExistingThread sends.
BuildReferences(raw, messageId) ==
    LET referencesMatch == MatchReferences(raw)
    IN  IF referencesMatch.matched
        THEN Trim(referencesMatch.group) \o <<SP>> \o Bracket(messageId)
        ELSE Bracket(messageId)

\* ------------------------------------------------------------------------
\* Spreadsheet side: getSpreadsheetData, getDataSheetData, createEmailBody
\* ------------------------------------------------------------------------

\* Comments the form can hold; the form is free text.
Comments == { <<"slept in">>, <<REF, SP, "see", SP, "above">> }

\* What getDisplayValues can return for CONFIG.dataRangeToCopy.
DisplayValues == { <<>>, << <<"Day", "Rise">> >> }

\* What the spreadsheet provider answers during one run.
SheetEnvs ==
    [ spreadsheetThrows : BOOLEAN,  \* getActiveSpreadsheet / getName throws
      dataSheet         : BOOLEAN,  \* getSheetByName(dataSheetName) # null
      formSheet         : BOOLEAN,  \* getSheetByName(formSheetName) # null
      lastRow           : {0, 1},   \* formSheet.getLastRow()
      commentThrows     : BOOLEAN,  \* getLastRow / getRange / getValue throws
      comment           : Comments,
      rangeThrows       : BOOLEAN,  \* dataSheet.getRange / getDisplayValues throws
      data              : DisplayValues ]

\* emailData = null
NoData == [valid |-> FALSE, comment |-> <<>>, data |-> <<>>]

EmailData(comment, data) == [valid |-> TRUE, comment |-> comment, data |-> data]

getDataSheetData(env) ==
    IF env.rangeThrows THEN << <<"Error", "Loading Data">> >>
    ELSE IF Len(env.data) = 0 THEN << <<"No Data", "Available">> >>
    ELSE env.data

getSpreadsheetData(env) ==
    IF env.spreadsheetThrows THEN NoData
    ELSE IF ~env.dataSheet THEN NoData
    ELSE IF ~env.formSheet THEN NoData
    ELSE IF env.commentThrows THEN NoData
    ELSE IF env.lastRow < 1
         THEN EmailData(<<"No form submissions yet">>, getDataSheetData(env))
    ELSE EmailData(env.comment, getDataSheetData(env))

\* The HTML body, given by the two values the template interpolates: the
\* comment (comment || 'No comment') and the rows of the table.  The markup
\* around them is fixed text.
createEmailBody(emailData) ==
    [comment |-> IF emailData.comment = <<>> THEN <<"No comment">>
                 ELSE emailData.comment,
     table   |-> emailData.data]

\* The body the legacy script builds inline: `${comment}`, then the table.
LegacyBody(comment, data) == [comment |-> comment, table |-> data]

NoBody == [comment |-> <<>>, table |-> <<>>]

\* The text of a body as it stands in the raw content of the message sent:
\* the comment line.  The cells of the table follow it and are left out.
BodyText(htmlBody) == htmlBody.comment

\* ------------------------------------------------------------------------
\* State
\* ------------------------------------------------------------------------
Runs == {"A", "B"}

\* The run slot a trigger uses when invocations do not overlap.
MainRun == "A"

VARIABLES
    props,     \* script properties: the two persisted keys
    inbox,     \* ids of the conversations the mail provider holds
    first,     \* first message of each conversation
    nextId,    \* number of the next conversation the provider creates
    pc,        \* where each run of sendDailyUpdate stands
    ver,       \* which script each run executes
    loc,       \* local variables of each run
    obs,       \* what each run has done so far (history, read by the properties)
    util       \* how the last utility entry point called since the last run ended

vars == <<props, inbox, first, nextId, pc, ver, loc, obs, util>>

NoMessage == Message(<<>>, <<>>, <<>>)

\* First messages a conversation not created by the script can have.
ManualMessages ==
    { Message(<<"m0">>, << <<LT, "a", GT>> >>, <<"hello">>),
      Message(<<"m0">>, << <<LT, "a", GT>>, <<LT, "b", GT>> >>, <<"hello">>),
      Message(<<>>, <<>>, <<"hello">>) }

NoLocals ==
    [ htmlBody       |-> NoBody,
      storedThreadId |-> Null,
      thread         |-> Null,
      messageId      |-> <<>>,
      references     |-> <<>>,
      oldThreadId    |-> Null,
      newThreadId    |-> Null ]

NoObs ==
    [ entry        |-> [riseTrackerThreadId |-> Null,
                        lastKnownRiseTrackerThreadId |-> Null],
      entryExists  |-> FALSE,    \* the stored id named a conversation at entry
      fetch        |-> "none",   \* what the fetcher met
      result       |-> "none",   \* how the run ended
      sent         |-> <<>>,     \* emails handed to the provider, in order
      direct       |-> "none",   \* outcome of getThreadById
      searched     |-> FALSE,    \* GmailApp.search was called
      found        |-> FALSE,    \* a thread object was obtained
      degraded     |-> FALSE,    \* no Message-ID extracted: plain reply chosen
      replyFail    |-> "none",   \* why the reply attempt failed
      replyOk      |-> FALSE,    \* the reply attempt returned success
      newThread    |-> 0,        \* invocations of the new-thread path
      archived     |-> FALSE,    \* the archival key was written
      stored       |-> FALSE,    \* the current thread id was written
      calls        |-> <<>>,     \* the steps the run has taken, in order
      overwrote    |-> "none",   \* the current thread id its write replaced
      overlapped   |-> FALSE ]   \* another run was in progress during this one

TypeOK ==
    /\ props \in [riseTrackerThreadId : ThreadIds \cup {Null},
                  lastKnownRiseTrackerThreadId : ThreadIds \cup {Null}]
    /\ inbox \subseteq ThreadIds
    /\ nextId \in 1..(MaxThreads + 1)
    /\ ver \in [Runs -> Versions]
    /\ DOMAIN pc = Runs /\ DOMAIN loc = Runs /\ DOMAIN obs = Runs
    /\ util \in {"none", "returned", "threw"}

Init ==
    /\ props = [riseTrackerThreadId |-> Null, lastKnownRiseTrackerThreadId |-> Null]
    /\ \E m \in ManualMessages \cup {NoMessage} :
          /\ inbox = IF m = NoMessage THEN {} ELSE {ManualThreadId}
          /\ first = [t \in ThreadIds |-> IF t = ManualThreadId THEN m ELSE NoMessage]
    /\ nextId = 1
    /\ pc = [r \in Runs |-> "idle"]
    /\ ver = [r \in Runs |-> "v3"]
    /\ loc = [r \in Runs |-> NoLocals]
    /\ obs = [r \in Runs |-> NoObs]
    /\ util = "none"

Idle == \A r \in Runs : pc[r] = "idle"

\* The runs that are inside sendDailyUpdate.
InProgress == {r \in Runs : pc[r] \notin {"idle", "done"}}

\* JavaScript truthiness of a property value
Truthy(v) == v # Null

\* An email handed to the mail provider.
Email(call, to, inReplyTo, references, thread) ==
    [call |-> call, to |-> to, inReplyTo |-> inReplyTo,
     references |-> references, thread |-> thread]

\* GmailMessage.reply answers the sender of the message replied to; the
\* messages of the conversation are those the script user sent.
ReplyRecipient(thread) == ScriptUser

\* A run leaves sendDailyUpdate with the given outcome; o is its history.
Return(r, o, result) ==
    /\ pc' = [pc EXCEPT ![r] = "done"]
    /\ obs' = [obs EXCEPT ![r] = [o EXCEPT !.result = result,
                                           !.calls = Append(@, pc[r])]]

\* Control moves on inside the run.
Goto(r, o, label) ==
    /\ pc' = [pc EXCEPT ![r] = label]
    /\ obs' = [obs EXCEPT ![r] = [o EXCEPT !.calls = Append(@, pc[r])]]

\* The steps that call properties.getProperty for the current thread id.
StoredIdReads == {"readStoredId", "createNewThread", "legacyReadId"}

\* The steps that call properties.setProperty for the current thread id.
StoredIdWrites == {"storeThreadId", "legacyStore"}

\* The steps that call the mail provider (GmailApp, a thread, a message or a
\* draft).
MailCalls ==
    {"getThreadById", "search", "getMessages", "reply", "sendEmail",
     "createDraft", "draftSend", "threadSubject",
     "legacySearch", "legacyGetMessages", "legacySendEmail",
     "legacyCreateDraft", "legacyDraftSend"}

\* ------------------------------------------------------------------------
\* Triggers
\* ------------------------------------------------------------------------

\* The trigger fires sendDailyUpdate of one of the scripts.
Trigger(r, v) ==
    /\ pc[r] = "idle"
    /\ nextId + Cardinality(InProgress) <= MaxThreads
    /\ ver' = [ver EXCEPT ![r] = v]
    /\ loc' = [loc EXCEPT ![r] = NoLocals]
    /\ obs' = [q \in Runs |->
                 IF q = r
                 THEN [NoObs EXCEPT
                          !.entry = props,
                          !.entryExists = props.riseTrackerThreadId \in inbox,
                          !.overlapped = InProgress \ {r} # {}]
                 ELSE [obs[q] EXCEPT !.overlapped = @ \/ q \in InProgress]]
    /\ pc' = [pc EXCEPT ![r] = IF v = "v3" THEN "getSpreadsheetData" ELSE "legacySheets"]
    /\ util' = "none"
    /\ UNCHANGED <<props, inbox, first, nextId>>

\* Invocations do not overlap: one run per trigger event.
StartRun(v) == Idle /\ Trigger(MainRun, v)

\* sendDailyUpdate has returned; its local variables are gone.  The history
\* of a run that came after the main run is kept until the main run's is
\* dropped.
EndRun(r) ==
    /\ pc[r] = "done"
    /\ r # MainRun => pc[MainRun] # "done"
    /\ pc' = [pc EXCEPT ![r] = "idle"]
    /\ loc' = [loc EXCEPT ![r] = NoLocals]
    /\ obs' = [obs EXCEPT ![r] = NoObs]
    /\ UNCHANGED <<util, props, inbox, first, nextId, ver>>

\* ------------------------------------------------------------------------
\* v3: sendDailyUpdate, steps 1 and 2
\* ------------------------------------------------------------------------
FetchKind(env, emailData) ==
    IF ~emailData.valid
    THEN (IF ~env.spreadsheetThrows /\ (~env.dataSheet \/ ~env.formSheet)
          THEN "missingSheet" ELSE "error")
    ELSE IF env.rangeThrows THEN "unreadableRange"
    ELSE IF Len(env.data) = 0 THEN "emptyRange"
    ELSE "data"

\* if (!emailData) return;  else build the body and go on to send
AfterFetch(r, o, emailData) ==
    IF ~emailData.valid
    THEN Return(r, o, "aborted") /\ UNCHANGED loc
    ELSE /\ Goto(r, o, "readStoredId")
         /\ loc' = [loc EXCEPT ![r].htmlBody = createEmailBody(emailData)]

V3_GetSpreadsheetData(r, envs) ==
    /\ pc[r] = "getSpreadsheetData"
    /\ \E env \in envs :
          LET emailData == getSpreadsheetData(env)
              o == [obs[r] EXCEPT !.fetch = FetchKind(env, emailData)]
          IN  AfterFetch(r, o, emailData)
    /\ UNCHANGED <<util, props, inbox, first, nextId, ver>>

\* ------------------------------------------------------------------------
\* v3: sendThreadedEmail and replyToExistingThread
\* ------------------------------------------------------------------------

\* properties.getProperty(CONFIG.threadIdProperty), outside the try block:
\* a throw reaches the catch of sendDailyUpdate.
V3_ReadStoredId(r) ==
    /\ pc[r] = "readStoredId"
    /\ \/ /\ loc' = [loc EXCEPT ![r].storedThreadId = props.riseTrackerThreadId]
          /\ Goto(r, obs[r], IF Truthy(props.riseTrackerThreadId)
                             THEN "getThreadById" ELSE "createNewThread")
       \/ /\ Return(r, obs[r], "error")
          /\ UNCHANGED loc
    /\ UNCHANGED <<util, props, inbox, first, nextId, ver>>

\* Faulty variant of ReplyReturns: the result of the reply is ignored and the
\* new-thread path is always taken.
ReplyReturns_Ignored(r, o, replySuccess) ==
    Goto(r, [o EXCEPT !.replyOk = replySuccess], "createNewThread")

\* sendThreadedEmail after replyToExistingThread has returned replySuccess.
ReplyReturns(r, o, replySuccess) ==
    IF replySuccess
    THEN Return(r, [o EXCEPT !.replyOk = TRUE], "success")
    ELSE Goto(r, o, "createNewThread")

\* What the provider's lookups yield for an id.
Lookup(id) == IF id \in inbox THEN id ELSE Null

\* replyToExistingThread once the direct lookup has returned: if (!thread) return false
AfterDirectLookup(r, o, thread) ==
    IF Truthy(thread)
    THEN Goto(r, [o EXCEPT !.found = TRUE], "getMessages")
    ELSE ReplyReturns(r, [o EXCEPT !.replyFail = "notFound"], FALSE)

\* thread = GmailApp.getThreadById(threadId): returns the thread, returns
\* nothing, or throws; only a throw leads to the search.
V3_GetThreadById(r) ==
    /\ pc[r] = "getThreadById"
    /\ \/ /\ loc' = [loc EXCEPT ![r].thread = Lookup(loc[r].storedThreadId)]
          /\ AfterDirectLookup(r, [obs[r] EXCEPT !.direct = "returned"],
                               Lookup(loc[r].storedThreadId))
       \/ /\ Goto(r, [obs[r] EXCEPT !.direct = "threw"], "search")
          /\ UNCHANGED loc
    /\ UNCHANGED <<util, props, inbox, first, nextId, ver>>

\* GmailApp.search("thread:" + threadId) in the catch block of the lookup; a
\* throw here reaches the outer catch of replyToExistingThread.
V3_Search(r) ==
    /\ pc[r] = "search"
    /\ \/ /\ loc' = [loc EXCEPT ![r].thread = Lookup(loc[r].storedThreadId)]
          /\ AfterDirectLookup(r, [obs[r] EXCEPT !.searched = TRUE],
                               Lookup(loc[r].storedThreadId))
       \/ /\ ReplyReturns(r, [obs[r] EXCEPT !.searched = TRUE,
                                            !.replyFail = "searchThrew"], FALSE)
          /\ UNCHANGED loc
    /\ UNCHANGED <<util, props, inbox, first, nextId, ver>>

\* thread.getMessages(), getFirstMessageSubject(), firstMessage.getRawContent()
\* and the two matches on the raw content.
V3_GetMessages(r) ==
    /\ pc[r] = "getMessages"
    /\ \/ LET rawContent == getRawContent(first[loc[r].thread])
              messageId  == ExtractMessageId(rawContent)
          IN  IF messageId = <<>>
              THEN /\ loc' = [loc EXCEPT ![r].messageId = <<>>]
                   /\ Goto(r, [obs[r] EXCEPT !.degraded = TRUE], "reply")
              ELSE /\ loc' = [loc EXCEPT ![r].messageId = messageId,
                                         ![r].references =
                                             BuildReferences(rawContent, messageId)]
                   /\ Goto(r, obs[r], "sendEmail")
       \/ /\ ReplyReturns(r, [obs[r] EXCEPT !.replyFail = "readThrew"], FALSE)
          /\ UNCHANGED loc
    /\ UNCHANGED <<util, props, inbox, first, nextId, ver>>

\* Faulty variant of V3_Reply: the return after the plain reply is missing
\* and control runs on into the header path.
V3_Reply_NoReturn(r) ==
    /\ pc[r] = "reply"
    /\ \/ Goto(r, [obs[r] EXCEPT !.sent = Append(@,
              Email("reply", ReplyRecipient(loc[r].thread), <<>>, <<>>, loc[r].thread))],
              "sendEmail")
       \/ ReplyReturns(r, [obs[r] EXCEPT !.replyFail = "sendThrew"], FALSE)
    /\ UNCHANGED <<util, props, inbox, first, nextId, ver, loc>>

\* lastMessage.reply("", {htmlBody: htmlBody}); return true
V3_Reply(r) ==
    /\ pc[r] = "reply"
    /\ \/ ReplyReturns(r, [obs[r] EXCEPT !.sent = Append(@,
              Email("reply", ReplyRecipient(loc[r].thread), <<>>, <<>>, loc[r].thread))],
              TRUE)
       \/ ReplyReturns(r, [obs[r] EXCEPT !.replyFail = "sendThrew"], FALSE)
    /\ UNCHANGED <<util, props, inbox, first, nextId, ver, loc>>

\* GmailApp.sendEmail(CONFIG.recipientEmail, ..., {headers: {...}}); return true
V3_SendEmail(r) ==
    /\ pc[r] = "sendEmail"
    /\ \/ ReplyReturns(r, [obs[r] EXCEPT !.sent = Append(@,
              Email("sendEmail", recipientEmail, Bracket(loc[r].messageId),
                    loc[r].references, loc[r].thread))],
              TRUE)
       \/ ReplyReturns(r, [obs[r] EXCEPT !.replyFail = "sendThrew"], FALSE)
    /\ UNCHANGED <<util, props, inbox, first, nextId, ver, loc>>

\* ------------------------------------------------------------------------
\* v3: createNewThread.  Every throw inside it is caught and returns false.
\* ------------------------------------------------------------------------

\* const oldThreadId = properties.getProperty(CONFIG.threadIdProperty)
V3_CreateNewThread(r) ==
    /\ pc[r] = "createNewThread"
    /\ LET o == [obs[r] EXCEPT !.newThread = @ + 1]
       IN  \/ /\ loc' = [loc EXCEPT ![r].oldThreadId = props.riseTrackerThreadId]
              /\ Goto(r, o, IF Truthy(props.riseTrackerThreadId)
                            THEN "archive" ELSE "createDraft")
           \/ /\ Return(r, o, "failed")
              /\ UNCHANGED loc
    /\ UNCHANGED <<util, props, inbox, first, nextId, ver>>

\* Faulty variant of V3_Archive: the old id is logged but not written.
V3_Archive_Skipped(r) ==
    /\ pc[r] = "archive"
    /\ \/ Goto(r, obs[r], "createDraft")
       \/ Return(r, obs[r], "failed")
    /\ UNCHANGED <<util, props, inbox, first, nextId, ver, loc>>

\* properties.setProperty('lastKnownRiseTrackerThreadId', oldThreadId)
V3_Archive(r) ==
    /\ pc[r] = "archive"
    /\ \/ /\ props' = [props EXCEPT !.lastKnownRiseTrackerThreadId = loc[r].oldThreadId]
          /\ Goto(r, [obs[r] EXCEPT !.archived = TRUE], "createDraft")
       \/ /\ Return(r, obs[r], "failed")
          /\ UNCHANGED props
    /\ UNCHANGED <<util, inbox, first, nextId, ver, loc>>

\* GmailApp.createDraft(CONFIG.recipientEmail, CONFIG.emailSubject, "", {htmlBody})
V3_CreateDraft(r) ==
    /\ pc[r] = "createDraft"
    /\ \/ Goto(r, obs[r], "draftSend")
       \/ Return(r, obs[r], "failed")
    /\ UNCHANGED <<util, props, inbox, first, nextId, ver, loc>>

\* The provider sends a draft: a new conversation with a new id comes to
\* exist, its first message carrying a Message-ID of its own.
ProviderSends(r, id) ==
    /\ inbox' = inbox \cup {id}
    /\ first' = [first EXCEPT ![id] = Message(<<id>>, <<>>, BodyText(loc[r].htmlBody))]
    /\ nextId' = nextId + 1

\* draft.send()
V3_DraftSend(r) ==
    /\ pc[r] = "draftSend"
    /\ \/ /\ nextId <= MaxThreads
          /\ ProviderSends(r, ProviderId(nextId))
          /\ loc' = [loc EXCEPT ![r].thread = ProviderId(nextId)]
          /\ Goto(r, [obs[r] EXCEPT !.sent = Append(@,
                 Email("draft", recipientEmail, <<>>, <<>>, ProviderId(nextId)))],
                 "storeThreadId")
       \/ /\ Return(r, obs[r], "failed")
          /\ UNCHANGED <<inbox, first, nextId, loc>>
    /\ UNCHANGED <<util, props, ver>>

\* Faulty variant of NewThreadId: the id read at the top of createNewThread
\* is persisted again.
NewThreadId_Stale(r) == loc[r].oldThreadId

\* The id createNewThread persists: newThread.getId() of the thread of the
\* message just sent.
NewThreadId(r) == loc[r].thread

\* Faulty variant of V3_StoreThreadId: the new id is written under the
\* archival key, the current thread id stays as it was.
V3_StoreThreadId_WrongKey(r) ==
    /\ pc[r] = "storeThreadId"
    /\ \/ /\ props' = [props EXCEPT !.lastKnownRiseTrackerThreadId = NewThreadId(r)]
          /\ loc' = [loc EXCEPT ![r].newThreadId = NewThreadId(r)]
          /\ Goto(r, [obs[r] EXCEPT !.stored = TRUE,
                                   !.overwrote = props.riseTrackerThreadId],
                  "threadSubject")
       \/ /\ Return(r, obs[r], "failed")
          /\ UNCHANGED <<props, loc>>
    /\ UNCHANGED <<util, inbox, first, nextId, ver>>

\* .getThread(); newThread.getId(); properties.setProperty(threadIdProperty, newThreadId)
V3_StoreThreadId(r) ==
    /\ pc[r] = "storeThreadId"
    /\ \/ /\ props' = [props EXCEPT !.riseTrackerThreadId = NewThreadId(r)]
          /\ loc' = [loc EXCEPT ![r].newThreadId = NewThreadId(r)]
          /\ Goto(r, [obs[r] EXCEPT !.stored = TRUE,
                                   !.overwrote = props.riseTrackerThreadId],
                  "threadSubject")
       \/ /\ Return(r, obs[r], "failed")
          /\ UNCHANGED <<props, loc>>
    /\ UNCHANGED <<util, inbox, first, nextId, ver>>

\* newThread.getFirstMessageSubject() in the last log line; return true
V3_ThreadSubject(r) ==
    /\ pc[r] = "threadSubject"
    /\ \/ Return(r, obs[r], "success")
       \/ Return(r, obs[r], "failed")
    /\ UNCHANGED <<util, props, inbox, first, nextId, ver, loc>>

\* ------------------------------------------------------------------------
\* legacy: sendDailyUpdate of setThreadIDManually.js.  The spreadsheet calls
\* are outside any try block; the mail step is inside one try block.
\* ------------------------------------------------------------------------
Legacy_Sheets(r, envs) ==
    /\ pc[r] = "legacySheets"
    /\ \E env \in envs :
          IF env.spreadsheetThrows
          THEN Return(r, [obs[r] EXCEPT !.fetch = "error"], "crashed") /\ UNCHANGED loc
          ELSE IF ~env.dataSheet \/ ~env.formSheet
          THEN Return(r, [obs[r] EXCEPT !.fetch = "missingSheet"], "aborted")
               /\ UNCHANGED loc
          ELSE IF env.commentThrows \/ env.lastRow < 1 \/ env.rangeThrows
          THEN Return(r, [obs[r] EXCEPT !.fetch =
                             IF env.rangeThrows THEN "unreadableRange" ELSE "error"],
                      "crashed") /\ UNCHANGED loc
          ELSE /\ Goto(r, [obs[r] EXCEPT !.fetch =
                              IF Len(env.data) = 0 THEN "emptyRange" ELSE "data"],
                       "legacyReadId")
               /\ loc' = [loc EXCEPT ![r].htmlBody = LegacyBody(env.comment, env.data)]
    /\ UNCHANGED <<util, props, inbox, first, nextId, ver>>

\* const currentThreadId = properties.getProperty('riseTrackerThreadId')
Legacy_ReadId(r) ==
    /\ pc[r] = "legacyReadId"
    /\ \/ /\ loc' = [loc EXCEPT ![r].storedThreadId = props.riseTrackerThreadId]
          /\ IF Truthy(props.riseTrackerThreadId)
             THEN Goto(r, obs[r], "legacySearch")
             ELSE Goto(r, [obs[r] EXCEPT !.newThread = @ + 1], "legacyCreateDraft")
       \/ /\ Return(r, obs[r], "error")
          /\ UNCHANGED loc
    /\ UNCHANGED <<util, props, inbox, first, nextId, ver>>

\* const threads = GmailApp.search("thread:" + currentThreadId)
Legacy_Search(r) ==
    /\ pc[r] = "legacySearch"
    /\ \/ /\ loc' = [loc EXCEPT ![r].thread = Lookup(loc[r].storedThreadId)]
          /\ IF Truthy(Lookup(loc[r].storedThreadId))
             THEN Goto(r, [obs[r] EXCEPT !.searched = TRUE, !.found = TRUE],
                       "legacyGetMessages")
             ELSE Goto(r, [obs[r] EXCEPT !.searched = TRUE, !.replyFail = "notFound",
                                         !.newThread = @ + 1],
                       "legacyArchive")
       \/ /\ Return(r, [obs[r] EXCEPT !.searched = TRUE, !.replyFail = "searchThrew"],
                    "error")
          /\ UNCHANGED loc
    /\ UNCHANGED <<util, props, inbox, first, nextId, ver>>

\* thread.getMessages() and the message ids
Legacy_GetMessages(r) ==
    /\ pc[r] = "legacyGetMessages"
    /\ \/ Goto(r, obs[r], "legacySendEmail")
       \/ Return(r, [obs[r] EXCEPT !.replyFail = "readThrew"], "error")
    /\ UNCHANGED <<util, props, inbox, first, nextId, ver, loc>>

\* GmailApp.sendEmail(recipientEmail, subject, "", {htmlBody, inReplyTo, references})
Legacy_SendEmail(r) ==
    /\ pc[r] = "legacySendEmail"
    /\ \/ Return(r, [obs[r] EXCEPT !.replyOk = TRUE, !.sent = Append(@,
              Email("sendEmail", recipientEmail, <<"lastMessageId">>,
                    <<"messageIds">>, loc[r].thread))],
              "success")
       \/ Return(r, [obs[r] EXCEPT !.replyFail = "sendThrew"], "error")
    /\ UNCHANGED <<util, props, inbox, first, nextId, ver, loc>>

\* properties.setProperty('lastKnownRiseTrackerThreadId', currentThreadId)
Legacy_Archive(r) ==
    /\ pc[r] = "legacyArchive"
    /\ \/ /\ props' = [props EXCEPT
                          !.lastKnownRiseTrackerThreadId = loc[r].storedThreadId]
          /\ Goto(r, [obs[r] EXCEPT !.archived = TRUE], "legacyCreateDraft")
       \/ /\ Return(r, obs[r], "error")
          /\ UNCHANGED props
    /\ UNCHANGED <<util, inbox, first, nextId, ver, loc>>

\* GmailApp.createDraft(recipientEmail, subject, "", {htmlBody: htmlBody})
Legacy_CreateDraft(r) ==
    /\ pc[r] = "legacyCreateDraft"
    /\ \/ Goto(r, obs[r], "legacyDraftSend")
       \/ Return(r, obs[r], "error")
    /\ UNCHANGED <<util, props, inbox, first, nextId, ver, loc>>

\* draft.send()
Legacy_DraftSend(r) ==
    /\ pc[r] = "legacyDraftSend"
    /\ \/ /\ nextId <= MaxThreads
          /\ ProviderSends(r, ProviderId(nextId))
          /\ loc' = [loc EXCEPT ![r].thread = ProviderId(nextId)]
          /\ Goto(r, [obs[r] EXCEPT !.sent = Append(@,
                 Email("draft", recipientEmail, <<>>, <<>>, ProviderId(nextId)))],
                 "legacyStore")
       \/ /\ Return(r, obs[r], "error")
          /\ UNCHANGED <<inbox, first, nextId, loc>>
    /\ UNCHANGED <<util, props, ver>>

\* .getThread(); properties.setProperty('riseTrackerThreadId', newThread.getId());
\* newThread.getId() once more in the log line that follows
Legacy_Store(r) ==
    /\ pc[r] = "legacyStore"
    /\ \/ /\ props' = [props EXCEPT !.riseTrackerThreadId = loc[r].thread]
          /\ loc' = [loc EXCEPT ![r].newThreadId = loc[r].thread]
          /\ LET o == [obs[r] EXCEPT !.stored = TRUE,
                                      !.overwrote = props.riseTrackerThreadId]
             IN  \/ Return(r, o, "success")
                 \/ Return(r, o, "error")
       \/ /\ Return(r, obs[r], "error")
          /\ UNCHANGED <<props, loc>>
    /\ UNCHANGED <<util, inbox, first, nextId, ver>>

\* ------------------------------------------------------------------------
\* Between runs
\* ------------------------------------------------------------------------

\* The mailbox owner deletes a conversation.
DeleteThread(t) ==
    /\ Idle
    /\ t \in inbox
    /\ inbox' = inbox \ {t}
    /\ first' = [first EXCEPT ![t] = NoMessage]
    /\ UNCHANGED <<util, props, nextId, pc, ver, loc, obs>>

\* properties.deleteProperty(CONFIG.threadIdProperty).  The function has no
\* try block: a throw of getProperty or deleteProperty leaves it uncaught.
resetThreading ==
    /\ Idle
    /\ \/ /\ props' = [props EXCEPT !.riseTrackerThreadId = Null]
          /\ util' = "returned"
       \/ /\ util' = "threw"
          /\ UNCHANGED props
    /\ UNCHANGED <<inbox, first, nextId, pc, ver, loc, obs>>

\* properties.setProperty('riseTrackerThreadId', threadId); no try block here
\* either.
setThreadIdManually ==
    /\ Idle
    /\ \/ /\ props' = [props EXCEPT !.riseTrackerThreadId = ManualThreadId]
          /\ util' = "returned"
       \/ /\ util' = "threw"
          /\ UNCHANGED props
    /\ UNCHANGED <<inbox, first, nextId, pc, ver, loc, obs>>

\* One call of a run; envs is what the spreadsheet may answer.
Step(r, envs) ==
    \/ V3_GetSpreadsheetData(r, envs)
    \/ V3_ReadStoredId(r)
    \/ V3_GetThreadById(r)
    \/ V3_Search(r)
    \/ V3_GetMessages(r)
    \/ V3_Reply(r)
    \/ V3_SendEmail(r)
    \/ V3_CreateNewThread(r)
    \/ V3_Archive(r)
    \/ V3_CreateDraft(r)
    \/ V3_DraftSend(r)
    \/ V3_StoreThreadId(r)
    \/ V3_ThreadSubject(r)
    \/ Legacy_Sheets(r, envs)
    \/ Legacy_ReadId(r)
    \/ Legacy_Search(r)
    \/ Legacy_GetMessages(r)
    \/ Legacy_SendEmail(r)
    \/ Legacy_Archive(r)
    \/ Legacy_CreateDraft(r)
    \/ Legacy_DraftSend(r)
    \/ Legacy_Store(r)
    \/ EndRun(r)

Next ==
    \/ \E v \in Versions : StartRun(v)
    \/ \E r \in Runs : Step(r, SheetEnvs)
    \/ \E t \in ThreadIds : DeleteThread(t)
    \/ resetThreading
    \/ setThreadIdManually

Spec == Init /\ [][Next]_vars

\* The spreadsheet while invocations overlap: both sheets present, one form
\* row with a plain comment, a readable data range.
OverlapEnvs ==
    {env \in SheetEnvs :
        /\ ~env.spreadsheetThrows /\ env.dataSheet /\ env.formSheet
        /\ env.lastRow >= 1 /\ ~env.commentThrows /\ ~env.rangeThrows
        /\ env.comment = <<"slept in">> /\ Len(env.data) > 0}

\* Nothing in the scripts takes a lock: a form submission may fire
\* sendDailyUpdate again while the invocation of an earlier submission has not
\* returned, or has returned a moment ago.
SecondTrigger(r) ==
    /\ r # MainRun
    /\ pc[MainRun] # "idle"
    /\ ver[MainRun] = "v3"
    /\ Trigger(r, "v3")

NextOverlap ==
    \/ \E v \in Versions : StartRun(v)
    \/ \E r \in Runs : SecondTrigger(r)
    \/ \E r \in Runs : Step(r, OverlapEnvs)
    \/ \E t \in ThreadIds : DeleteThread(t)
    \/ resetThreading
    \/ setThreadIdManually

SpecOverlap == Init /\ [][NextOverlap]_vars

\* ------------------------------------------------------------------------
\* Properties
\* ------------------------------------------------------------------------
Done(r) == pc[r] = "done"

Succeeded(r) == Done(r) /\ obs[r].result = "success"

\* The emails of a run that started a new conversation.
Drafts(r) == {i \in 1..Len(obs[r].sent) : obs[r].sent[i].call = "draft"}

\* C1: a run that does not end in success leaves both persisted keys, the
\* current thread id and the archival id, with the values they had when the
\* run started.
C1_FailedRunLeavesStateAsAtEntry ==
    \A r \in Runs :
        (Done(r) /\ obs[r].result # "success") => props = obs[r].entry

\* C2: when the reply to the stored thread X succeeds, the run writes
\* nothing to the property store: the current id is still X, the archival
\* key is unchanged and the new-thread path is not entered.
C2_SuccessfulReplyWritesNothing ==
    \A r \in Runs :
        (Done(r) /\ obs[r].replyOk) =>
            /\ obs[r].result = "success"
            /\ Truthy(obs[r].entry.riseTrackerThreadId)
            /\ props = obs[r].entry
            /\ ~obs[r].archived /\ ~obs[r].stored
            /\ obs[r].newThread = 0
            /\ Drafts(r) = {}

C2_Witness ==
    \E r \in Runs :
        /\ Done(r) /\ obs[r].replyOk /\ ver[r] = "v3"
        /\ Len(obs[r].sent) = 1 /\ obs[r].sent[1].call = "sendEmail"
        /\ props.riseTrackerThreadId = loc[r].storedThreadId

\* C3: from a state with no stored thread id, a run that ends in success has
\* attempted no reply, has created exactly one conversation by createDraft
\* and send, and has stored the id of that conversation, which is not empty;
\* the archival key is not written.
C3_FirstRunStoresNewThread ==
    \A r \in Runs :
        (Succeeded(r) /\ ~Truthy(obs[r].entry.riseTrackerThreadId)) =>
            /\ obs[r].direct = "none" /\ ~obs[r].searched /\ ~obs[r].found
            /\ obs[r].replyFail = "none" /\ ~obs[r].replyOk
            /\ Len(obs[r].sent) = 1
            /\ obs[r].sent[1].call = "draft"
            /\ obs[r].sent[1].thread \in inbox
            /\ Truthy(props.riseTrackerThreadId)
            /\ props.riseTrackerThreadId = obs[r].sent[1].thread
            /\ ~obs[r].archived
            /\ props.lastKnownRiseTrackerThreadId =
                   obs[r].entry.lastKnownRiseTrackerThreadId

C3_Witness ==
    \E r \in Runs :
        /\ Succeeded(r) /\ ~Truthy(obs[r].entry.riseTrackerThreadId)
        /\ obs[r].stored
        /\ loc[r].htmlBody.comment = <<"slept in">>
        /\ Len(loc[r].htmlBody.table) = 1

\* C4: from a state whose stored id X names no conversation (neither the
\* direct lookup nor the search can find it), a run that ends in success
\* leaves the stored id different from X and equal to the id of the new
\* conversation, and the archival key equal to X.
C4_LostThreadArchivedAndReplaced ==
    \A r \in Runs :
        (/\ Succeeded(r)
         /\ Truthy(obs[r].entry.riseTrackerThreadId)
         /\ ~obs[r].entryExists) =>
            /\ props.riseTrackerThreadId # obs[r].entry.riseTrackerThreadId
            /\ Drafts(r) # {}
            /\ \A i \in Drafts(r) : props.riseTrackerThreadId = obs[r].sent[i].thread
            /\ props.lastKnownRiseTrackerThreadId = obs[r].entry.riseTrackerThreadId

C4_Witness ==
    \E r \in Runs :
        /\ Succeeded(r)
        /\ Truthy(obs[r].entry.riseTrackerThreadId)
        /\ ~obs[r].entryExists
        /\ obs[r].direct = "threw" /\ obs[r].searched
        /\ obs[r].entry.lastKnownRiseTrackerThreadId # obs[r].entry.riseTrackerThreadId
        /\ props.lastKnownRiseTrackerThreadId = obs[r].entry.riseTrackerThreadId

\* C5: whenever a stored thread id exists and the reply attempt fails, for
\* whatever reason, the same run goes on to the new-thread path; so a run
\* whose reply failed is reported failed only after that attempt.
C5_FailedReplyFallsBackToNewThread ==
    \A r \in Runs :
        (/\ Done(r)
         /\ Truthy(loc[r].storedThreadId)
         /\ obs[r].replyFail \in {"notFound", "readThrew", "sendThrew"}) =>
            obs[r].newThread >= 1

\* C6: in replyToExistingThread the conversation is declared not found only
\* after the search keyed on the id has been performed.
C6_SearchBeforeNotFound ==
    \A r \in Runs :
        (ver[r] = "v3" /\ obs[r].replyFail = "notFound") => obs[r].searched

\* C7: when the conversation is found and no Message-ID can be extracted,
\* the run replies on the thread by the provider's own reply, without
\* threading headers.  If that call returns, the reply counts as a success:
\* no new thread, persisted state unchanged.  If it throws, the run goes on
\* to the new-thread path.
C7_DegradedReply ==
    \A r \in Runs :
        obs[r].degraded =>
            /\ ver[r] = "v3" /\ obs[r].found /\ loc[r].messageId = <<>>
            /\ pc[r] = "reply" => obs[r].sent = <<>>
            /\ pc[r] # "reply" =>
                  \/ /\ obs[r].replyOk
                     /\ Succeeded(r)
                     /\ obs[r].sent = << Email("reply", ReplyRecipient(loc[r].thread),
                                               <<>>, <<>>, loc[r].storedThreadId) >>
                     /\ obs[r].newThread = 0
                     /\ props = obs[r].entry
                  \/ /\ ~obs[r].replyOk
                     /\ obs[r].replyFail = "sendThrew"
                     /\ pc[r] = "createNewThread" \/ obs[r].newThread = 1
                     /\ \A i \in 1..Len(obs[r].sent) : obs[r].sent[i].call = "draft"

C7_Witness ==
    \E r \in Runs :
        /\ obs[r].degraded /\ Succeeded(r) /\ obs[r].replyOk
        /\ Len(obs[r].sent) = 1 /\ obs[r].sent[1].call = "reply"

\* The value of the References header of a message: its lines unfolded.
RECURSIVE Unfold(_)
Unfold(lines) ==
    IF lines = <<>> THEN <<>>
    ELSE IF Len(lines) = 1 THEN Head(lines)
    ELSE Head(lines) \o <<SP>> \o Unfold(Tail(lines))

\* The headers the explicit-header reply is to carry for a thread whose
\* first message is msg, extracted Message-ID m.
ExpectedReferences(msg, m) ==
    IF msg.references = <<>> THEN Bracket(m)
    ELSE Unfold(msg.references) \o <<SP>> \o Bracket(m)

\* C8: on the explicit-header reply path, with m the Message-ID extracted
\* from the first message: In-Reply-To is "<m>"; References is exactly "<m>"
\* when the raw message has no References header, and R, a space and "<m>"
\* when it has a References header of value R.
C8_ThreadingHeaders ==
    \A r \in Runs :
        \A i \in 1..Len(obs[r].sent) :
            (ver[r] = "v3" /\ obs[r].sent[i].call = "sendEmail") =>
                /\ obs[r].sent[i].inReplyTo = Bracket(loc[r].messageId)
                /\ obs[r].sent[i].references =
                       ExpectedReferences(first[obs[r].sent[i].thread], loc[r].messageId)

\* C9: a run whose stored id names a conversation that still exists sends a
\* reply with In-Reply-To and References headers to CONFIG.recipientEmail
\* and leaves the stored id unchanged; no email of any run goes to anyone
\* other than CONFIG.recipientEmail.
C9_ReplyWithHeadersToGroup ==
    \A r \in Runs :
        /\ \A i \in 1..Len(obs[r].sent) : obs[r].sent[i].to = recipientEmail
        /\ (/\ Done(r)
            /\ Truthy(obs[r].entry.riseTrackerThreadId)
            /\ obs[r].entryExists
            /\ obs[r].sent # <<>>) =>
               /\ \A i \in 1..Len(obs[r].sent) :
                     /\ obs[r].sent[i].call = "sendEmail"
                     /\ obs[r].sent[i].inReplyTo # <<>>
                     /\ obs[r].sent[i].references # <<>>
                     /\ obs[r].sent[i].thread = obs[r].entry.riseTrackerThreadId
               /\ props.riseTrackerThreadId = obs[r].entry.riseTrackerThreadId

\* The rows the fetcher marks as standing in for missing data.
Placeholders == { << <<"No Data", "Available">> >>, << <<"Error", "Loading Data">> >> }

\* C10: when a sheet is missing, or the configured range is empty or cannot
\* be read, the fetcher yields a placeholder row and the run still reaches
\* the thread-continuity step: no run ends without a send attempt because of
\* missing spreadsheet data.
C10_MissingDataStillSends ==
    \A r \in Runs :
        (Done(r) /\ obs[r].fetch \in {"missingSheet", "emptyRange", "unreadableRange"}) =>
            /\ obs[r].result \notin {"aborted", "crashed"}
            /\ loc[r].htmlBody.table \in Placeholders

\* C11: every top-level entry point catches every error: whichever external
\* call throws, the entry point returns normally, and the persisted state
\* the next run starts from is well formed.
C11_EntryPointsCatchAllErrors ==
    /\ util # "threw"
    /\ \A r \in Runs : Done(r) => obs[r].result # "crashed"
    /\ props \in [riseTrackerThreadId : ThreadIds \cup {Null},
                  lastKnownRiseTrackerThreadId : ThreadIds \cup {Null}]

\* The positions of a run's history at which a step of the given kind ran.
CallsOf(r, kind) == {i \in DOMAIN obs[r].calls : obs[r].calls[i] \in kind}

\* C12: within one run the persisted current thread id is read once, before
\* any mail-provider call, and written at most once, after the last
\* mail-provider call; the id archived is the value read at entry.
C12_ReadOnceWriteLast ==
    \A r \in Runs :
        /\ Cardinality(CallsOf(r, StoredIdReads)) <= 1
        /\ \A i \in CallsOf(r, StoredIdReads) :
              \A j \in CallsOf(r, MailCalls) : i < j
        /\ Cardinality(CallsOf(r, StoredIdWrites)) <= 1
        /\ \A i \in CallsOf(r, StoredIdWrites) :
              \A j \in CallsOf(r, MailCalls) : j < i
        /\ obs[r].archived =>
              props.lastKnownRiseTrackerThreadId = obs[r].entry.riseTrackerThreadId

\* C13: every new conversation a run has actually sent (draft.send()
\* returned) has its id stored as the current thread id when the run ends,
\* and a run that is not reported successful has sent no email.
C13_SentConversationIsStored ==
    \A r \in Runs :
        Done(r) =>
            /\ \A i \in Drafts(r) :
                  props.riseTrackerThreadId = obs[r].sent[i].thread
            /\ ~Succeeded(r) => obs[r].sent = <<>>

\* Two runs have each started a new conversation and stored its id, after
\* reading the same stored id that gave them no conversation to reply to.
BothCreated(a, b) ==
    /\ a # b
    /\ obs[a].stored /\ obs[b].stored
    /\ loc[a].storedThreadId = loc[b].storedThreadId
    /\ ~obs[a].found /\ ~obs[b].found

\* C14: two runs that read the same absent or unreachable stored id and both
\* create and store a new conversation must have overlapped; then two
\* conversations exist and the stored id names only the one written last.
\* When the second run starts after the first has returned, it finds the
\* first run's conversation stored and its replies go to that conversation.
C14_DuplicateThreadsOnlyWhenOverlapped ==
    /\ \A a, b \in Runs :
          BothCreated(a, b) =>
              /\ obs[a].overlapped /\ obs[b].overlapped
              /\ loc[a].newThreadId # loc[b].newThreadId
              /\ {loc[a].newThreadId, loc[b].newThreadId} \subseteq inbox
              /\ obs[a].overwrote = loc[b].newThreadId
                    \/ obs[b].overwrote = loc[a].newThreadId
              /\ obs[b].overwrote = loc[a].newThreadId =>
                    props.riseTrackerThreadId = loc[b].newThreadId
    /\ \A b \in Runs \ {MainRun} :
          (/\ obs[MainRun].stored /\ ~obs[MainRun].overlapped
           /\ pc[b] # "idle" /\ ~obs[b].overlapped) =>
              /\ obs[b].entry.riseTrackerThreadId = loc[MainRun].newThreadId
              /\ \A i \in DOMAIN obs[b].sent :
                    obs[b].sent[i].call # "draft" =>
                        obs[b].sent[i].thread = loc[MainRun].newThreadId

\* Two overlapping runs have both returned, each having started a
\* conversation; the stored id names the later one and the earlier one's id
\* is under neither key.
C14_Witness ==
    \E a, b \in Runs :
        /\ BothCreated(a, b)
        /\ Done(a) /\ Done(b)
        /\ obs[a].overlapped /\ obs[b].overlapped
        /\ props.riseTrackerThreadId = loc[b].newThreadId
        /\ props.riseTrackerThreadId # loc[a].newThreadId
        /\ props.lastKnownRiseTrackerThreadId # loc[a].newThreadId
=============================================================================
